---- MODULE Spec2Model ----
(***************************************************************************)
(* Token-stream protocol of src/chat.rs: the two chat-completion handlers  *)
(* (chat_completions, chunk_chat_completions), the per-request result      *)
(* channel they create, the shared incoming-request channel, and the       *)
(* engine at the other end of both (an external collaborator, modelled as  *)
(* an unconstrained sender).                                               *)
(***************************************************************************)
EXTENDS Integers, Sequences, FiniteSets, TLC

\* ---------------------------------------------------------------- bounds
NumReq == 2          \* HTTP requests in flight
MaxSend == 3         \* token events the engine delivers in one behaviour
MaxMsgs == 2         \* messages in the array of one ChatRequest

Req == 1..NumReq
Chan == 1..NumReq    \* one flume::unbounded() call per request

\* ------------------------------------------------------------ data types
PromptCounts == {1, 2}
Texts == {<<"a">>, <<"b">>}

\* chat.rs:17-25
Role == {"System", "User", "Assistant"}

\* crate::FinishReason, as used at chat.rs:138,150,154,215-227
FinishReason == {"Null", "Stop", "Length"}

\* crate::Token, matched at chat.rs:143-157 and chat.rs:211-231
PromptTokenCount(n) == [kind |-> "PromptTokenCount", n |-> n, text |-> <<>>]
TokenText(t) == [kind |-> "Token", n |-> 0, text |-> t]
Stop == [kind |-> "Stop", n |-> 0, text |-> <<>>]
CutOff == [kind |-> "CutOff", n |-> 0, text |-> <<>>]
EndOfText == [kind |-> "EndOfText", n |-> 0, text |-> <<>>]

Token == {PromptTokenCount(n) : n \in PromptCounts}
           \cup {TokenText(t) : t \in Texts}
           \cup {Stop, CutOff, EndOfText}

Terminating == {"Stop", "CutOff", "EndOfText"}

\* crate::TokenCounter, TokenCounter::default() at chat.rs:137
TokenCounter == [prompt_tokens |-> 0, completion_tokens |-> 0, total_tokens |-> 0]

\* chat.rs:178-184 and chat.rs:187-191 (Default derive)
ChunkChatChoice == [delta |-> [tag |-> "None", role |-> "", content |-> <<>>],
                    index |-> 0, finish_reason |-> "Null"]

NoResponse == [object |-> "none"]

\* ------------------------------------------------------ normalization
\* text is a sequence of characters
Whitespace == {" ", "\n", "\t"}

\* crate::OptionArray<T>: nothing, a single value, or an array
OptNone == [tag |-> "None"]
OptItem(x) == [tag |-> "Item", item |-> x]
OptArray(a) == [tag |-> "Array", array |-> a]

\* Vec::from(OptionArray) at chat.rs:81 and stop.into() at chat.rs:94
VecFrom(oa) ==
    CASE oa.tag = "None" -> <<>>
      [] oa.tag = "Item" -> <<oa.item>>
      [] oa.tag = "Array" -> oa.array

\* crate::MAX_TOKENS, used at chat.rs:93
MAX_TOKENS == 4096

\* chat.rs:27-35
RoleDisplay(role) ==
    CASE role = "System" -> <<"S", "y", "s", "t", "e", "m">>
      [] role = "User" -> <<"U", "s", "e", "r">>
      [] role = "Assistant" -> <<"A", "s", "s", "i", "s", "t", "a", "n", "t">>

RECURSIVE TrimStart(_)
TrimStart(c) ==
    IF c # <<>> /\ Head(c) \in Whitespace THEN TrimStart(Tail(c)) ELSE c

RECURSIVE TrimEnd(_)
TrimEnd(c) ==
    IF c # <<>> /\ c[Len(c)] \in Whitespace
      THEN TrimEnd(SubSeq(c, 1, Len(c) - 1)) ELSE c

\* variant of Trim: only the leading whitespace is removed
TrimLeadingOnly(c) == TrimStart(c)

\* content.trim() at chat.rs:85
Trim(c) == TrimEnd(TrimStart(c))

\* chat.rs:83-87: the closure handed to map()
RenderRecord(rec) == RoleDisplay(rec.role) \o <<":", " ">> \o Trim(rec.content)

\* Itertools::join at chat.rs:88
RECURSIVE JoinRest(_, _)
JoinRest(segs, sep) ==
    IF segs = <<>> THEN <<>>
    ELSE sep \o Head(segs) \o JoinRest(Tail(segs), sep)

Join(segs, sep) ==
    IF segs = <<>> THEN <<>> ELSE Head(segs) \o JoinRest(Tail(segs), sep)

\* variant of ClampMaxTokens: the larger of the two is taken
ClampMaxTokensMax(n) == IF n > MAX_TOKENS THEN n ELSE MAX_TOKENS

\* chat.rs:93
ClampMaxTokens(n) == IF n < MAX_TOKENS THEN n ELSE MAX_TOKENS

\* chat.rs:69-109
FromChatRequest(value) ==
    LET recs == VecFrom(value.messages)
        prompt == Join([i \in 1..Len(recs) |-> RenderRecord(recs[i])], <<"\n", "\n">>)
    IN [prompt |-> prompt \o <<"\n", "\n">> \o RoleDisplay("Assistant") \o <<":">>,
        max_tokens |-> ClampMaxTokens(value.max_tokens),
        stop |-> VecFrom(value.stop),
        sampler |-> [top_p |-> value.top_p,
                     temperature |-> value.temperature,
                     presence_penalty |-> value.presence_penalty,
                     frequency_penalty |-> value.frequency_penalty],
        occurrences |-> <<>>]

\* chat.rs:55-67
DefaultChatRequest ==
    [messages |-> OptNone,
     max_tokens |-> 256,
     stop |-> OptItem(<<"\n", "\n">>),
     temperature |-> "1.0",
     top_p |-> "1.0",
     presence_penalty |-> "0.0",
     frequency_penalty |-> "0.0"]

\* the request bodies of the model
Contents == {<<" ", "x", " ", "y", " ">>, <<"z">>}
ChatRecords ==
    {[role |-> "System", content |-> <<"z">>],
     [role |-> "User", content |-> <<" ", "x", " ", "y", " ">>],
     [role |-> "Assistant", content |-> <<"z">>]}
RecordArrays == UNION {[1..n -> ChatRecords] : n \in 0..MaxMsgs}
Messages == {OptNone} \cup {OptItem(x) : x \in ChatRecords}
              \cup {OptArray(a) : a \in RecordArrays}
MaxTokenInputs == {100, MAX_TOKENS, 999999}
Stops == {OptItem(<<"\n", "\n">>), OptArray(<<<<"a">>, <<"b">>>>)}

ChatRequests ==
    {DefaultChatRequest} \cup
    [messages : Messages, max_tokens : MaxTokenInputs, stop : Stops,
     temperature : {"0.7"}, top_p : {"0.9"},
     presence_penalty : {"0.1"}, frequency_penalty : {"0.2"}]

NoRequest == [prompt |-> <<>>]

VARIABLES
    active,         \* the HTTP requests that arrive in this run
    body,           \* body[r]: the Json(ChatRequest) of request r
    generate,       \* generate[r]: the GenerateRequest the engine made of r's envelope
    vocab,          \* the token events the engine of this run produces
    mode,           \* which handler serves request r: "agg" | "chunk"
    pc,             \* position of the handler task of request r
    nchan,          \* number of flume::unbounded() calls made so far
    rx,             \* rx[r]: id of the channel whose receive-half r holds (0: none yet)
    chanq,          \* chanq[c]: queue of result channel c; an element is
                    \*   [tok |-> Token, src |-> request of the envelope it was sent for]
    incoming,       \* queue of the shared incoming-request channel (ThreadRequest)
    engineUp,       \* the receive-half of the incoming-request channel exists
    held,           \* envelopes the engine has received and whose send-half it still holds
    counter,        \* chat_completions local
    finish_reason,  \* chat_completions local
    text,           \* chat_completions local
    response,       \* the Json(ChatResponse) returned by chat_completions
    out,            \* events yielded so far by the Sse stream of chunk_chat_completions
    sent,           \* history: sent[c] = every element ever delivered on channel c
    rcvd,           \* history: rcvd[r] = every element stream.next() yielded to r
    submits,        \* history: submits[r] = number of sender.send calls made for r
    failed          \* history: failed[r] = sender.send returned Err for r

vars == <<active, body, generate, vocab, mode, pc, nchan, rx, chanq, incoming, engineUp, held, counter,
          finish_reason, text, response, out, sent, rcvd, submits, failed>>

handlerVars == <<counter, finish_reason, text, response, out, rcvd>>

\* ------------------------------------------------------ channel helpers
\* variant of NewChannel: every handler is handed the same channel
NewChannelShared(n) == 1

\* flume::unbounded(): a channel distinct from every channel made before
NewChannel(n) == n + 1

\* live send-halves of result channel c: the one moved into the envelope,
\* which sits in the incoming queue or is held by the engine
SendHalves(c) ==
    Cardinality({i \in 1..Len(incoming) : incoming[i].token_sender = c})
      + Cardinality({e \in held : e.token_sender = c})

\* receive-half of c exists: some handler holds it and has not returned
RecvAlive(c) == \E r \in Req : rx[r] = c /\ pc[r] \in {"loop", "total", "stream"}

\* variant of HasRoom: the channel is made with a capacity of one element
HasRoomBounded(q) == Len(q) < 1

\* flume::unbounded(): a send finds room whatever the queue holds
HasRoom(q) == TRUE

\* stream.next() resolves to Some(head)
CanRecv(c) == chanq[c] # <<>>

\* variant of Disconnected: an empty queue is taken for the end of the stream
DisconnectedOnEmpty(c) == chanq[c] = <<>>

\* stream.next() resolves to None: queue empty and every send-half dropped
Disconnected(c) == chanq[c] = <<>> /\ SendHalves(c) = 0

Delivered == LET RECURSIVE Sum(_)
                 Sum(c) == IF c = 0 THEN 0 ELSE Len(sent[c]) + Sum(c - 1)
             IN Sum(NumReq)

\* --------------------------------------------------------------- Init
InitFor(A, V, B) ==
    /\ active = A
    /\ \E f \in [A -> B] :
          body = [r \in Req |-> IF r \in A THEN f[r] ELSE DefaultChatRequest]
    /\ generate = [r \in Req |-> NoRequest]
    /\ vocab = V
    /\ mode \in [Req -> {"agg", "chunk"}]
    /\ \A r \in Req \ A : mode[r] = "agg"
    /\ pc = [r \in Req |-> "start"]
    /\ nchan = 0
    /\ rx = [r \in Req |-> 0]
    /\ chanq = [c \in Chan |-> <<>>]
    /\ incoming = <<>>
    /\ engineUp = TRUE
    /\ held = {}
    /\ counter = [r \in Req |-> TokenCounter]
    /\ finish_reason = [r \in Req |-> "Null"]
    /\ text = [r \in Req |-> <<>>]
    /\ response = [r \in Req |-> NoResponse]
    /\ out = [r \in Req |-> <<>>]
    /\ sent = [c \in Chan |-> <<>>]
    /\ rcvd = [r \in Req |-> <<>>]
    /\ submits = [r \in Req |-> 0]
    /\ failed = [r \in Req |-> FALSE]

\* one request, the engine free to send any token event
Init == InitFor({1}, Token, {DefaultChatRequest})

\* every request, served in turn by the aggregating and the streaming
\* handler, the engine restricted to one content token and one terminating
\* event
ConcTokens == {TokenText(<<"a">>), Stop}
InitConc ==
    /\ InitFor(Req, ConcTokens, {DefaultChatRequest})
    /\ \A r \in Req : mode[r] = IF r % 2 = 1 THEN "agg" ELSE "chunk"

\* one request with any of the request bodies, the engine restricted to Stop
InitNorm == InitFor({1}, {Stop}, ChatRequests)

\* ------------------------------------------------------------ handlers
\* variant of Dispatch: the envelope of a failed send is kept, not dropped
DispatchLeak(r) ==
    /\ r \in active
    /\ pc[r] = "start"
    /\ LET c == nchan + 1
           envelope == [request |-> r, kind |-> "Chat", payload |-> body[r],
                        token_sender |-> c]
       IN /\ nchan' = nchan + 1
          /\ rx' = [rx EXCEPT ![r] = c]
          /\ submits' = [submits EXCEPT ![r] = @ + 1]
          /\ incoming' = Append(incoming, envelope)
          /\ failed' = [failed EXCEPT ![r] = ~engineUp]
    /\ pc' = [pc EXCEPT ![r] = IF mode[r] = "agg" THEN "loop" ELSE "stream"]
    /\ UNCHANGED <<active, body, generate, vocab, mode, chanq, engineUp, held, sent, handlerVars>>

\* variant of Dispatch: a failed send is tried a second time
DispatchRetry(r) ==
    /\ r \in active
    /\ pc[r] = "start"
    /\ LET c == nchan + 1
           envelope == [request |-> r, kind |-> "Chat", payload |-> body[r],
                        token_sender |-> c]
       IN /\ nchan' = nchan + 1
          /\ rx' = [rx EXCEPT ![r] = c]
          /\ IF engineUp
               THEN /\ incoming' = Append(incoming, envelope)
                    /\ submits' = [submits EXCEPT ![r] = @ + 1]
                    /\ failed' = failed
               ELSE /\ incoming' = incoming
                    /\ submits' = [submits EXCEPT ![r] = @ + 2]
                    /\ failed' = [failed EXCEPT ![r] = TRUE]
    /\ pc' = [pc EXCEPT ![r] = IF mode[r] = "agg" THEN "loop" ELSE "stream"]
    /\ UNCHANGED <<active, body, generate, vocab, mode, chanq, engineUp, held, sent, handlerVars>>

\* variant of Dispatch: the request is converted before it is sent
DispatchNormalized(r) ==
    /\ r \in active
    /\ pc[r] = "start"
    /\ LET c == nchan + 1
           envelope == [request |-> r, kind |-> "Chat",
                        payload |-> FromChatRequest(body[r]),
                        token_sender |-> c]
       IN /\ nchan' = nchan + 1
          /\ rx' = [rx EXCEPT ![r] = c]
          /\ submits' = [submits EXCEPT ![r] = @ + 1]
          /\ IF engineUp
               THEN /\ incoming' = Append(incoming, envelope)
                    /\ failed' = failed
               ELSE /\ incoming' = incoming
                    /\ failed' = [failed EXCEPT ![r] = TRUE]
    /\ pc' = [pc EXCEPT ![r] = IF mode[r] = "agg" THEN "loop" ELSE "stream"]
    /\ UNCHANGED <<active, body, generate, vocab, mode, chanq, engineUp, held, sent,
                   handlerVars>>

\* chat.rs:130-140 and chat.rs:203-210: create the result channel, send the
\* envelope on the shared channel ignoring the result, set up the locals.
\* sender.send fails iff the engine's receive-half is gone; the envelope
\* comes back inside the Err and is dropped with its token_sender.
Dispatch(r) ==
    /\ r \in active
    /\ pc[r] = "start"
    /\ LET c == NewChannel(nchan)
           envelope == [request |-> r, kind |-> "Chat", payload |-> body[r],
                        token_sender |-> c]
       IN /\ nchan' = nchan + 1
          /\ rx' = [rx EXCEPT ![r] = c]
          /\ submits' = [submits EXCEPT ![r] = @ + 1]
          /\ IF engineUp
               THEN /\ incoming' = Append(incoming, envelope)
                    /\ failed' = failed
               ELSE /\ incoming' = incoming
                    /\ failed' = [failed EXCEPT ![r] = TRUE]
    /\ pc' = [pc EXCEPT ![r] = IF mode[r] = "agg" THEN "loop" ELSE "stream"]
    /\ UNCHANGED <<active, body, generate, vocab, mode, chanq, engineUp, held, sent, handlerVars>>

\* variant of AggStep: the new text is put in front of the accumulated text
AggStepPrepend(st, token) ==
    CASE token.kind = "PromptTokenCount" ->
            [st EXCEPT !.counter.prompt_tokens = token.n]
      [] token.kind = "Token" ->
            [st EXCEPT !.text = token.text \o @,
                       !.counter.completion_tokens = @ + 1]
      [] token.kind = "Stop" ->
            [st EXCEPT !.finish_reason = "Stop", !.brk = TRUE]
      [] token.kind \in {"CutOff", "EndOfText"} ->
            [st EXCEPT !.finish_reason = "Length", !.brk = TRUE]

\* variant of AggStep: EndOfText is matched together with Stop
AggStepEndIsStop(st, token) ==
    CASE token.kind = "PromptTokenCount" ->
            [st EXCEPT !.counter.prompt_tokens = token.n]
      [] token.kind = "Token" ->
            [st EXCEPT !.text = @ \o token.text,
                       !.counter.completion_tokens = @ + 1]
      [] token.kind \in {"Stop", "EndOfText"} ->
            [st EXCEPT !.finish_reason = "Stop", !.brk = TRUE]
      [] token.kind = "CutOff" ->
            [st EXCEPT !.finish_reason = "Length", !.brk = TRUE]

\* variant of AggStep: CutOff and EndOfText set the reason without break
AggStepLengthContinues(st, token) ==
    CASE token.kind = "PromptTokenCount" ->
            [st EXCEPT !.counter.prompt_tokens = token.n]
      [] token.kind = "Token" ->
            [st EXCEPT !.text = @ \o token.text,
                       !.counter.completion_tokens = @ + 1]
      [] token.kind = "Stop" ->
            [st EXCEPT !.finish_reason = "Stop", !.brk = TRUE]
      [] token.kind \in {"CutOff", "EndOfText"} ->
            [st EXCEPT !.finish_reason = "Length"]

\* variant of AggStep: Stop sets the reason without break
AggStepStopContinues(st, token) ==
    CASE token.kind = "PromptTokenCount" ->
            [st EXCEPT !.counter.prompt_tokens = token.n]
      [] token.kind = "Token" ->
            [st EXCEPT !.text = @ \o token.text,
                       !.counter.completion_tokens = @ + 1]
      [] token.kind = "Stop" ->
            [st EXCEPT !.finish_reason = "Stop"]
      [] token.kind \in {"CutOff", "EndOfText"} ->
            [st EXCEPT !.finish_reason = "Length", !.brk = TRUE]

\* chat.rs:143-157: the match of the consumption loop
AggStep(st, token) ==
    CASE token.kind = "PromptTokenCount" ->
            [st EXCEPT !.counter.prompt_tokens = token.n]
      [] token.kind = "Token" ->
            [st EXCEPT !.text = @ \o token.text,
                       !.counter.completion_tokens = @ + 1]
      [] token.kind = "Stop" ->
            [st EXCEPT !.finish_reason = "Stop", !.brk = TRUE]
      [] token.kind \in {"CutOff", "EndOfText"} ->
            [st EXCEPT !.finish_reason = "Length", !.brk = TRUE]

\* chat.rs:137-158 as a function of the whole token stream: the locals after
\* the loop has run over s
RECURSIVE AggLoop(_, _)
AggLoop(st, s) ==
    IF s = <<>> \/ st.brk THEN st
    ELSE AggLoop(AggStep(st, Head(s).tok), Tail(s))

AggRun(s) ==
    AggLoop([counter |-> TokenCounter, finish_reason |-> "Null",
             text |-> <<>>, brk |-> FALSE], s)

\* chat.rs:142-158, one iteration: stream.next() yields Some(token)
AggRecv(r) ==
    /\ mode[r] = "agg" /\ pc[r] = "loop"
    /\ CanRecv(rx[r])
    /\ LET m == Head(chanq[rx[r]])
           st == AggStep([counter |-> counter[r], finish_reason |-> finish_reason[r],
                          text |-> text[r], brk |-> FALSE], m.tok)
       IN /\ chanq' = [chanq EXCEPT ![rx[r]] = Tail(@)]
          /\ rcvd' = [rcvd EXCEPT ![r] = Append(@, m)]
          /\ counter' = [counter EXCEPT ![r] = st.counter]
          /\ finish_reason' = [finish_reason EXCEPT ![r] = st.finish_reason]
          /\ text' = [text EXCEPT ![r] = st.text]
          /\ pc' = [pc EXCEPT ![r] = IF st.brk THEN "total" ELSE "loop"]
    /\ UNCHANGED <<active, body, generate, vocab, mode, nchan, rx, incoming, engineUp, held, response, out,
                   sent, submits, failed>>

\* chat.rs:142: stream.next() yields None, the while-let ends
AggClosed(r) ==
    /\ mode[r] = "agg" /\ pc[r] = "loop"
    /\ Disconnected(rx[r])
    /\ pc' = [pc EXCEPT ![r] = "total"]
    /\ UNCHANGED <<active, body, generate, vocab, mode, nchan, rx, chanq, incoming, engineUp, held, sent,
                   submits, failed, handlerVars>>

\* variant of ChatResponse: the choice is emitted twice
ChatResponseTwoChoices(content, reason, usage) ==
    [object |-> "chat.completion",
     choices |-> <<[message |-> [role |-> "Assistant", content |-> content],
                    index |-> 0,
                    finish_reason |-> reason],
                   [message |-> [role |-> "Assistant", content |-> content],
                    index |-> 1,
                    finish_reason |-> reason]>>,
     usage |-> usage]

\* chat.rs:162-173
ChatResponse(content, reason, usage) ==
    [object |-> "chat.completion",
     choices |-> <<[message |-> [role |-> "Assistant", content |-> content],
                    index |-> 0,
                    finish_reason |-> reason]>>,
     usage |-> usage]

\* variant of Total: the completion tokens are left out of the sum
TotalPromptOnly(c) == [c EXCEPT !.total_tokens = c.prompt_tokens]

\* chat.rs:160
Total(c) == [c EXCEPT !.total_tokens = c.prompt_tokens + c.completion_tokens]

\* chat.rs:160-174: total_tokens, the response, and the drop of the stream
AggFinish(r) ==
    /\ mode[r] = "agg" /\ pc[r] = "total"
    /\ counter' = [counter EXCEPT ![r] = Total(@)]
    /\ response' = [response EXCEPT ![r] =
                       ChatResponse(text[r], finish_reason[r], Total(counter[r]))]
    /\ pc' = [pc EXCEPT ![r] = "done"]
    /\ UNCHANGED <<active, body, generate, vocab, mode, nchan, rx, chanq, incoming, engineUp, held,
                   finish_reason, text, out, sent, rcvd, submits, failed>>

\* chat.rs:230
DoneEvent == [data |-> "[DONE]"]

\* chat.rs:233-237
ChunkEvent(choice) ==
    [data |-> "json", object |-> "chat.completion.chunk", choices |-> <<choice>>]

\* variant of ChunkMap: the finish reasons of CutOff and Stop are exchanged
ChunkMapSwapped(token) ==
    CASE token.kind = "PromptTokenCount" ->
            ChunkEvent([delta |-> [tag |-> "Role", role |-> "Assistant", content |-> <<>>],
                        index |-> 0, finish_reason |-> "Null"])
      [] token.kind = "Token" ->
            ChunkEvent([delta |-> [tag |-> "Content", role |-> "", content |-> token.text],
                        index |-> 0, finish_reason |-> "Null"])
      [] token.kind = "CutOff" ->
            ChunkEvent([ChunkChatChoice EXCEPT !.finish_reason = "Stop"])
      [] token.kind = "Stop" ->
            ChunkEvent([ChunkChatChoice EXCEPT !.finish_reason = "Length"])
      [] token.kind = "EndOfText" -> DoneEvent

\* variant of ChunkMap: Stop is answered with the [DONE] marker
ChunkMapStopDone(token) ==
    CASE token.kind = "PromptTokenCount" ->
            ChunkEvent([delta |-> [tag |-> "Role", role |-> "Assistant", content |-> <<>>],
                        index |-> 0, finish_reason |-> "Null"])
      [] token.kind = "Token" ->
            ChunkEvent([delta |-> [tag |-> "Content", role |-> "", content |-> token.text],
                        index |-> 0, finish_reason |-> "Null"])
      [] token.kind = "CutOff" ->
            ChunkEvent([ChunkChatChoice EXCEPT !.finish_reason = "Length"])
      [] token.kind \in {"Stop", "EndOfText"} -> DoneEvent

\* variant of ChunkMap: a Token event is answered with the role chunk
ChunkMapTokenAsRole(token) ==
    CASE token.kind \in {"PromptTokenCount", "Token"} ->
            ChunkEvent([delta |-> [tag |-> "Role", role |-> "Assistant", content |-> <<>>],
                        index |-> 0, finish_reason |-> "Null"])
      [] token.kind = "CutOff" ->
            ChunkEvent([ChunkChatChoice EXCEPT !.finish_reason = "Length"])
      [] token.kind = "Stop" ->
            ChunkEvent([ChunkChatChoice EXCEPT !.finish_reason = "Stop"])
      [] token.kind = "EndOfText" -> DoneEvent

\* chat.rs:210-239: the closure handed to map()
ChunkMap(token) ==
    CASE token.kind = "PromptTokenCount" ->
            ChunkEvent([delta |-> [tag |-> "Role", role |-> "Assistant", content |-> <<>>],
                        index |-> 0, finish_reason |-> "Null"])
      [] token.kind = "Token" ->
            ChunkEvent([delta |-> [tag |-> "Content", role |-> "", content |-> token.text],
                        index |-> 0, finish_reason |-> "Null"])
      [] token.kind = "CutOff" ->
            ChunkEvent([ChunkChatChoice EXCEPT !.finish_reason = "Length"])
      [] token.kind = "Stop" ->
            ChunkEvent([ChunkChatChoice EXCEPT !.finish_reason = "Stop"])
      [] token.kind = "EndOfText" -> DoneEvent

\* chat.rs:210,241: the Sse body polls the mapped stream, an item is ready
ChunkRecv(r) ==
    /\ mode[r] = "chunk" /\ pc[r] = "stream"
    /\ CanRecv(rx[r])
    /\ LET m == Head(chanq[rx[r]])
       IN /\ chanq' = [chanq EXCEPT ![rx[r]] = Tail(@)]
          /\ rcvd' = [rcvd EXCEPT ![r] = Append(@, m)]
          /\ out' = [out EXCEPT ![r] = Append(@, ChunkMap(m.tok))]
    /\ UNCHANGED <<active, body, generate, vocab, mode, pc, nchan, rx, incoming, engineUp, held, counter,
                   finish_reason, text, response, sent, submits, failed>>

\* chat.rs:210,241: the mapped stream yields None, the Sse body ends
ChunkClosed(r) ==
    /\ mode[r] = "chunk" /\ pc[r] = "stream"
    /\ Disconnected(rx[r])
    /\ pc' = [pc EXCEPT ![r] = "ended"]
    /\ UNCHANGED <<active, body, generate, vocab, mode, nchan, rx, chanq, incoming, engineUp, held, sent,
                   submits, failed, handlerVars>>

\* -------------------------------------------------------------- engine
\* the engine takes the next ThreadRequest off the shared channel and
\* converts its RequestKind::Chat(request) into a GenerateRequest
EngineRecv ==
    /\ engineUp
    /\ incoming # <<>>
    /\ held' = held \cup {Head(incoming)}
    /\ incoming' = Tail(incoming)
    /\ generate' = [generate EXCEPT ![Head(incoming).request] =
                       FromChatRequest(Head(incoming).payload)]
    /\ UNCHANGED <<active, body, vocab, mode, pc, nchan, rx, chanq, engineUp, sent, submits, failed,
                   handlerVars>>

\* token_sender.send(token) on the send-half of a held envelope; on an
\* unbounded channel it never waits, and it is an Err that changes nothing
\* once the receive-half is gone
EngineSend(e, token) ==
    /\ e \in held
    /\ token \in vocab
    /\ RecvAlive(e.token_sender)
    /\ HasRoom(chanq[e.token_sender])
    /\ Delivered < MaxSend
    /\ LET m == [tok |-> token, src |-> e.request]
       IN /\ chanq' = [chanq EXCEPT ![e.token_sender] = Append(@, m)]
          /\ sent' = [sent EXCEPT ![e.token_sender] = Append(@, m)]
    /\ UNCHANGED <<active, body, generate, vocab, mode, pc, nchan, rx, incoming, engineUp, held, submits,
                   failed, handlerVars>>

\* the engine drops the send-half it holds
EngineDrop(e) ==
    /\ e \in held
    /\ held' = held \ {e}
    /\ UNCHANGED <<active, body, generate, vocab, mode, pc, nchan, rx, chanq, incoming, engineUp, sent,
                   submits, failed, handlerVars>>

\* the engine drops the receive-half of the incoming-request channel; later
\* sends on it fail, envelopes already queued stay queued with their
\* send-halves
EngineShutdown ==
    /\ engineUp
    /\ engineUp' = FALSE
    /\ UNCHANGED <<active, body, generate, vocab, mode, pc, nchan, rx, chanq, incoming, held, sent, submits,
                   failed, handlerVars>>

Envelopes == [request : Req, kind : {"Chat"}, payload : ChatRequests,
              token_sender : Chan]

Next ==
    \/ \E r \in Req : Dispatch(r)
    \/ \E r \in Req : AggRecv(r)
    \/ \E r \in Req : AggClosed(r)
    \/ \E r \in Req : AggFinish(r)
    \/ \E r \in Req : ChunkRecv(r)
    \/ \E r \in Req : ChunkClosed(r)
    \/ EngineRecv
    \/ \E e \in held, token \in Token : EngineSend(e, token)
    \/ \E e \in held : EngineDrop(e)
    \/ EngineShutdown

Spec == Init /\ [][Next]_vars

SpecConc == InitConc /\ [][Next]_vars

SpecNorm == InitNorm /\ [][Next]_vars

\* the handler tasks are scheduled by the runtime: a handler step that stays
\* enabled is eventually taken
Fairness ==
    \A r \in Req :
        WF_vars(Dispatch(r) \/ AggRecv(r) \/ AggClosed(r) \/ AggFinish(r)
                  \/ ChunkRecv(r) \/ ChunkClosed(r))

SpecFair == Init /\ [][Next]_vars /\ Fairness

\* ------------------------------------------------- reading a history
\* position of the first terminating event of a history, 0 if there is none
FirstTerm(s) ==
    IF \E i \in 1..Len(s) : s[i].tok.kind \in Terminating
      THEN CHOOSE i \in 1..Len(s) :
              /\ s[i].tok.kind \in Terminating
              /\ \A j \in 1..(i - 1) : s[j].tok.kind \notin Terminating
      ELSE 0

\* the events of a history that precede its first terminating event
BeforeTerm(s) == IF FirstTerm(s) = 0 THEN s ELSE SubSeq(s, 1, FirstTerm(s) - 1)

RECURSIVE ConcatTexts(_)
ConcatTexts(s) ==
    IF s = <<>> THEN <<>>
    ELSE (IF Head(s).tok.kind = "Token" THEN Head(s).tok.text ELSE <<>>)
            \o ConcatTexts(Tail(s))

CountTokens(s) == Cardinality({i \in 1..Len(s) : s[i].tok.kind = "Token"})

LastPrompt(s) ==
    LET P == {i \in 1..Len(s) : s[i].tok.kind = "PromptTokenCount"}
    IN IF P = {} THEN 0 ELSE s[CHOOSE i \in P : \A j \in P : j <= i].tok.n

Agg == {r \in Req : mode[r] = "agg"}
Chunk == {r \in Req : mode[r] = "chunk" /\ pc[r] # "start"}

\* ----------------------------------------------------------------- C1
\* C1: the aggregated response carries the concatenation, in arrival order,
\* of the texts of the Token events delivered before the first terminating
\* event (or before closure), their number as completion_tokens, and the
\* value of the last PromptTokenCount before that point (0 if none) as
\* prompt_tokens.
C1_AggregatedContent ==
    \A r \in Agg : pc[r] = "done" =>
        LET p == BeforeTerm(sent[rx[r]])
        IN /\ response[r].choices[1].message.content = ConcatTexts(p)
           /\ response[r].usage.completion_tokens = CountTokens(p)
           /\ response[r].usage.prompt_tokens = LastPrompt(p)

C1_Witness ==
    \E r \in Agg :
        /\ pc[r] = "done"
        /\ response[r].choices[1].message.content = <<"a", "b">>
        /\ response[r].usage.prompt_tokens = 2

\* ----------------------------------------------------------------- C2
\* C2: finish_reason is decided by the first terminating event delivered:
\* Stop gives Stop, CutOff and EndOfText give Length; it is Null exactly
\* when the channel closed with no terminating event delivered.
C2_FinishReason ==
    \A r \in Agg : pc[r] = "done" =>
        LET d == sent[rx[r]]
            i == FirstTerm(d)
            fr == response[r].choices[1].finish_reason
        IN /\ i # 0 /\ d[i].tok.kind = "Stop" => fr = "Stop"
           /\ i # 0 /\ d[i].tok.kind = "CutOff" => fr = "Length"
           /\ i # 0 /\ d[i].tok.kind = "EndOfText" => fr = "Length"
           /\ fr = "Null" <=> (i = 0 /\ SendHalves(rx[r]) = 0)

C2_Witness ==
    \E r \in Agg :
        /\ pc[r] = "done"
        /\ response[r].choices[1].finish_reason = "Length"
        /\ FirstTerm(sent[rx[r]]) = 2
        /\ sent[rx[r]][2].tok.kind = "EndOfText"

\* ----------------------------------------------------------------- C3
\* C3: an emitted ChatResponse has total_tokens = prompt_tokens +
\* completion_tokens; until the consumption loop has ended total_tokens is
\* 0, and it is assigned only by the step that follows the loop.
C3_TotalState ==
    \A r \in Agg :
        /\ pc[r] \in {"start", "loop", "total"} =>
              counter[r].total_tokens = 0 /\ response[r] = NoResponse
        /\ pc[r] = "done" =>
              /\ response[r].usage.total_tokens =
                    response[r].usage.prompt_tokens
                      + response[r].usage.completion_tokens
              /\ response[r].usage = counter[r]

C3_TotalTokens ==
    /\ []C3_TotalState
    /\ [][\A r \in Req :
             counter'[r].total_tokens # counter[r].total_tokens =>
                pc[r] = "total" /\ pc'[r] = "done"]_vars

C3_Witness ==
    \E r \in Agg :
        /\ pc[r] = "done"
        /\ response[r].usage.total_tokens = 3
        /\ response[r].usage.completion_tokens = 2

\* ----------------------------------------------------------------- C4
\* C4: in streaming mode the outbound events are a one-to-one,
\* order-preserving image of the token events received: the i-th outbound
\* event is the image of the i-th event delivered on the channel, by the
\* table PromptTokenCount -> role chunk, Token -> content chunk, CutOff ->
\* Length chunk, Stop -> Stop chunk, EndOfText -> [DONE].
ImageOf(tok, ev) ==
    CASE tok.kind = "PromptTokenCount" ->
            /\ ev.data = "json"
            /\ Len(ev.choices) = 1
            /\ ev.choices[1].delta.tag = "Role"
            /\ ev.choices[1].delta.role = "Assistant"
            /\ ev.choices[1].finish_reason = "Null"
      [] tok.kind = "Token" ->
            /\ ev.data = "json"
            /\ Len(ev.choices) = 1
            /\ ev.choices[1].delta.tag = "Content"
            /\ ev.choices[1].delta.content = tok.text
            /\ ev.choices[1].finish_reason = "Null"
      [] tok.kind = "CutOff" ->
            /\ ev.data = "json"
            /\ Len(ev.choices) = 1
            /\ ev.choices[1].delta.tag = "None"
            /\ ev.choices[1].finish_reason = "Length"
      [] tok.kind = "Stop" ->
            /\ ev.data = "json"
            /\ Len(ev.choices) = 1
            /\ ev.choices[1].delta.tag = "None"
            /\ ev.choices[1].finish_reason = "Stop"
      [] tok.kind = "EndOfText" -> ev.data = "[DONE]"

C4_StreamImage ==
    \A r \in Chunk :
        /\ Len(out[r]) = Len(rcvd[r])
        /\ rcvd[r] \o chanq[rx[r]] = sent[rx[r]]
        /\ \A i \in 1..Len(out[r]) : ImageOf(sent[rx[r]][i].tok, out[r][i])

C4_Witness ==
    \E r \in Chunk :
        /\ Len(out[r]) = 3
        /\ {sent[rx[r]][i].tok.kind : i \in 1..3} = {"Token", "CutOff", "EndOfText"}

\* ----------------------------------------------------------------- C5
\* a complete stream of one PromptTokenCount, k Token events and a final Stop
PromptTokensStop(s) ==
    /\ Len(s) >= 2
    /\ s[1].tok.kind = "PromptTokenCount"
    /\ s[Len(s)].tok.kind = "Stop"
    /\ \A i \in 2..(Len(s) - 1) : s[i].tok.kind = "Token"

IsChunk(ev, tag, reason) ==
    /\ ev.data = "json"
    /\ ev.object = "chat.completion.chunk"
    /\ Len(ev.choices) = 1
    /\ ev.choices[1].delta.tag = tag
    /\ ev.choices[1].index = 0
    /\ ev.choices[1].finish_reason = reason

\* C5 as stated: such a stream yields exactly k+1 chunks, all with
\* finish_reason Null, and nothing for the Stop event.
C5_NoChunkForStop ==
    \A r \in Chunk :
        pc[r] = "ended" /\ PromptTokensStop(sent[rx[r]]) =>
            /\ Len(out[r]) = Len(sent[rx[r]]) - 1
            /\ \A i \in 1..Len(out[r]) :
                  out[r][i].data = "json"
                    /\ out[r][i].choices[1].finish_reason = "Null"

\* C5, amended: such a stream yields exactly k+2 chunks in order: the
\* role-priming chunk, the k content chunks (all finish_reason Null), then a
\* chunk with empty delta and finish_reason Stop for the Stop event; and in
\* any stream the [DONE] marker is emitted for the EndOfText events and for
\* no other event.
C5_StopChunkLast ==
    \A r \in Chunk :
        LET d == sent[rx[r]]
            k == Len(d) - 2
        IN /\ pc[r] = "ended" /\ PromptTokensStop(d) =>
                /\ Len(out[r]) = k + 2
                /\ IsChunk(out[r][1], "Role", "Null")
                /\ \A i \in 2..(k + 1) :
                      /\ IsChunk(out[r][i], "Content", "Null")
                      /\ out[r][i].choices[1].delta.content = d[i].tok.text
                /\ IsChunk(out[r][k + 2], "None", "Stop")
           /\ \A i \in 1..Len(out[r]) :
                out[r][i] = DoneEvent <=> d[i].tok.kind = "EndOfText"

C5_Witness ==
    \E r \in Chunk :
        /\ pc[r] = "ended"
        /\ PromptTokensStop(sent[rx[r]])
        /\ Len(out[r]) = 3

\* ----------------------------------------------------------------- C6
\* C6: once an EndOfText event has been received the [DONE] marker is the
\* last outbound event of the request: nothing is emitted after it, also
\* when the engine puts more events on the channel.
C6_NothingAfterDone ==
    \A r \in Chunk :
        \A i \in 1..Len(rcvd[r]) :
            rcvd[r][i].tok.kind = "EndOfText" =>
                /\ out[r][i] = DoneEvent
                /\ Len(out[r]) = i

\* ----------------------------------------------------------------- C7
\* C7: every streaming response that has ended ended with the [DONE]
\* marker, emitted exactly once, whatever the engine did.
C7_EndsWithDone ==
    \A r \in Chunk :
        pc[r] = "ended" =>
            /\ out[r] # <<>>
            /\ out[r][Len(out[r])] = DoneEvent
            /\ Cardinality({i \in 1..Len(out[r]) : out[r][i] = DoneEvent}) = 1

\* ----------------------------------------------------------------- C8
\* C8: after a failed submission the result channel is closed and empty, so
\* the handler's next receive completes at once with None; the aggregating
\* handler returns empty content, finish_reason Null and usage 0/0/0, the
\* streaming handler an empty outbound sequence. No handler has an error
\* exit: the only final positions are "done" and "ended".
C8_FailedSubmission ==
    \A r \in Req : failed[r] =>
        /\ sent[rx[r]] = <<>> /\ rcvd[r] = <<>>
        /\ SendHalves(rx[r]) = 0
        /\ pc[r] \in {"loop", "stream"} => Disconnected(rx[r])
        /\ pc[r] \in {"loop", "total", "done", "stream", "ended"}
        /\ pc[r] = "done" =>
              response[r] = ChatResponse(<<>>, "Null",
                  [prompt_tokens |-> 0, completion_tokens |-> 0, total_tokens |-> 0])
        /\ mode[r] = "chunk" => out[r] = <<>>

C8_Witness ==
    \E r \in Req :
        /\ failed[r]
        /\ pc[r] \in {"done", "ended"}
        /\ ~engineUp

\* ----------------------------------------------------------------- C9
\* C9: a request makes exactly one submission attempt, also when it failed
\* or when its stream came out empty or truncated, and reads each delivered
\* token event at most once, in one pass.
C9_OneSubmissionOnePass ==
    \A r \in Req :
        /\ submits[r] = IF pc[r] = "start" THEN 0 ELSE 1
        /\ Cardinality({i \in 1..Len(incoming) : incoming[i].request = r})
             + Cardinality({e \in held : e.request = r}) <= 1
        /\ pc[r] # "start" => rcvd[r] \o chanq[rx[r]] = sent[rx[r]]

C9_Witness ==
    \E r \in Req :
        /\ pc[r] \in {"done", "ended"}
        /\ submits[r] = 1
        /\ Len(rcvd[r]) = 2
        /\ FirstTerm(rcvd[r]) = 0

\* ---------------------------------------------------------------- C10
\* C10: concurrent requests hold distinct result channels, and every token
\* event a request receives, or that waits in its channel, was sent on the
\* send-half of that request's own envelope.
C10_Isolation ==
    /\ \A r1, r2 \in Req : r1 # r2 /\ rx[r1] # 0 => rx[r1] # rx[r2]
    /\ \A r \in Req :
          /\ \A i \in 1..Len(rcvd[r]) : rcvd[r][i].src = r
          /\ rx[r] # 0 => \A i \in 1..Len(chanq[rx[r]]) : chanq[rx[r]][i].src = r
    /\ \A i \in 1..Len(incoming) : incoming[i].token_sender = rx[incoming[i].request]
    /\ \A e \in held : e.token_sender = rx[e.request]

C10_Witness ==
    \E r1, r2 \in Req :
        /\ r1 # r2
        /\ rcvd[r1] # <<>> /\ rcvd[r2] # <<>>
        /\ mode[r1] = "agg" /\ mode[r2] = "chunk"

\* ---------------------------------------------------------------- C11
\* C11: while the receive-half of a request's result channel exists, the
\* engine's send of a next token event on it is enabled, however many events
\* wait unread and whether or not the handler moves (within the delivery
\* budget of the model).
C11_SendNeverBlocks ==
    \A e \in held :
        RecvAlive(e.token_sender) /\ Delivered < MaxSend =>
            \A token \in vocab : ENABLED EngineSend(e, token)

C11_Witness ==
    \E e \in held :
        /\ RecvAlive(e.token_sender)
        /\ Len(chanq[e.token_sender]) = 2
        /\ rcvd[e.request] = <<>>
        /\ Delivered < MaxSend

\* ---------------------------------------------------------------- C12
\* C12 as stated: when the response is emitted no delivered event is left
\* unread in the request's channel.
C12_FullyDrained ==
    \A r \in Agg : pc[r] = "done" => chanq[rx[r]] = <<>>

\* C12, amended: when the response is emitted the handler has consumed the
\* delivered events up to and including the first terminating event, and
\* nothing else; with no terminating event delivered it has consumed all of
\* them and the channel is empty; events delivered after the first
\* terminating event are left unread.
C12_DrainedToFirstTerm ==
    \A r \in Agg : pc[r] = "done" =>
        LET d == sent[rx[r]]
            i == FirstTerm(d)
        IN /\ i = 0 => rcvd[r] = d /\ chanq[rx[r]] = <<>>
           /\ i # 0 => rcvd[r] = SubSeq(d, 1, i)
                         /\ chanq[rx[r]] = SubSeq(d, i + 1, Len(d))

C12_Witness ==
    \E r \in Agg :
        /\ pc[r] = "done"
        /\ FirstTerm(sent[rx[r]]) = 1
        /\ Len(chanq[rx[r]]) = 2

\* ---------------------------------------------------------------- C13
\* C13: there is no timeout. A handler whose submission succeeded leaves its
\* loop only on a terminating event (aggregating handler) or on a channel
\* whose send-halves are all dropped; while a send-half is open and no
\* terminating event was delivered, a handler that has read everything has
\* no step to take.
C13_NoTimeout ==
    \A r \in Req :
        LET open == SendHalves(rx[r]) > 0
            term == FirstTerm(sent[rx[r]]) # 0
        IN /\ pc[r] \in {"total", "done"} => term \/ ~open
           /\ pc[r] = "ended" => ~open
           /\ pc[r] = "loop" /\ open /\ ~term /\ chanq[rx[r]] = <<>> =>
                 ~ENABLED (AggRecv(r) \/ AggClosed(r) \/ AggFinish(r))
           /\ pc[r] = "stream" /\ open /\ chanq[rx[r]] = <<>> =>
                 ~ENABLED (ChunkRecv(r) \/ ChunkClosed(r))

C13_Witness ==
    \E r \in Req :
        /\ pc[r] \in {"loop", "stream"}
        /\ SendHalves(rx[r]) > 0
        /\ Len(rcvd[r]) = 2
        /\ FirstTerm(sent[rx[r]]) = 0
        /\ chanq[rx[r]] = <<>>

\* ---------------------------------------------------------------- C18
\* C18: once the aggregating handler has received a terminating event it is
\* out of its loop for good, and no later step changes its text, its prompt
\* and completion counts, its finish_reason or the events it has consumed.
C18_AfterTerm ==
    \A r \in Agg :
        FirstTerm(rcvd[r]) # 0 =>
            /\ pc[r] \in {"total", "done"}
            /\ FirstTerm(rcvd[r]) = Len(rcvd[r])
            /\ pc[r] = "done" =>
                  /\ response[r].choices[1].message.content = text[r]
                  /\ response[r].choices[1].finish_reason = finish_reason[r]

C18_StopsAtFirstTerm ==
    /\ []C18_AfterTerm
    /\ [][\A r \in Agg :
             FirstTerm(rcvd[r]) # 0 =>
                /\ pc'[r] # "loop"
                /\ rcvd'[r] = rcvd[r]
                /\ text'[r] = text[r]
                /\ finish_reason'[r] = finish_reason[r]
                /\ counter'[r].prompt_tokens = counter[r].prompt_tokens
                /\ counter'[r].completion_tokens = counter[r].completion_tokens]_vars

C18_Witness ==
    \E r \in Agg :
        /\ pc[r] = "done"
        /\ FirstTerm(rcvd[r]) = 2
        /\ Len(chanq[rx[r]]) = 1
        /\ chanq[rx[r]][1].tok.kind = "Token"

\* ---------------------------------------------------------------- C19
\* C19: with the handler task scheduled fairly, an aggregating handler in
\* its loop whose channel holds a terminating event, or whose send-halves
\* are all dropped, eventually emits its ChatResponse; a response exists
\* exactly when the handler is done, it never changes once emitted, and it
\* has exactly one choice, at index 0, with role Assistant.
C19_ResponseShape ==
    \A r \in Req :
        /\ response[r] # NoResponse <=> pc[r] = "done"
        /\ pc[r] = "done" =>
              /\ response[r].object = "chat.completion"
              /\ Len(response[r].choices) = 1
              /\ response[r].choices[1].index = 0
              /\ response[r].choices[1].message.role = "Assistant"

C19_EventuallyResponds ==
    /\ \A r \in Req :
          (/\ mode[r] = "agg"
           /\ pc[r] = "loop"
           /\ FirstTerm(sent[rx[r]]) # 0 \/ SendHalves(rx[r]) = 0)
             ~> (pc[r] = "done")
    /\ []C19_ResponseShape
    /\ [][\A r \in Req :
             response[r] # NoResponse => response'[r] = response[r]]_vars

C19_Witness ==
    \E r \in Agg :
        /\ pc[r] = "done"
        /\ Len(rcvd[r]) = 3
        /\ response[r].choices[1].finish_reason = "Null"
        /\ response[r] # NoResponse

\* ---------------------------------------------------------------- C20
\* position of the first outbound event produced from a terminating event
FirstTermOut(o) ==
    LET T == {i \in 1..Len(o) :
                 o[i] = DoneEvent \/ o[i].choices[1].finish_reason # "Null"}
    IN IF T = {} THEN 0 ELSE CHOOSE i \in T : \A j \in T : i <= j

ContentChunksBeforeTerm(o) ==
    LET p == IF FirstTermOut(o) = 0 THEN o ELSE SubSeq(o, 1, FirstTermOut(o) - 1)
    IN SelectSeq(p, LAMBDA ev : ev.choices[1].delta.tag = "Content")

RECURSIVE ConcatDeltas(_)
ConcatDeltas(o) ==
    IF o = <<>> THEN <<>>
    ELSE Head(o).choices[1].delta.content \o ConcatDeltas(Tail(o))

\* C20: on one and the same token stream the two handlers agree: the content
\* deltas the streaming handler emits before its first output made from a
\* terminating event concatenate to the text the aggregating loop computes
\* from that stream, and their number is its completion_tokens; the
\* aggregating handler's response carries exactly what that loop computes.
C20_RespondersAgree ==
    /\ \A r \in Chunk :
          LET a == AggRun(rcvd[r])
              c == ContentChunksBeforeTerm(out[r])
          IN /\ ConcatDeltas(c) = a.text
             /\ Len(c) = a.counter.completion_tokens
    /\ \A r \in Agg : pc[r] = "done" =>
          LET a == AggRun(sent[rx[r]])
          IN /\ response[r].choices[1].message.content = a.text
             /\ response[r].usage.completion_tokens = a.counter.completion_tokens

C20_Witness ==
    \E r \in Chunk :
        /\ Len(out[r]) = 3
        /\ FirstTermOut(out[r]) = 2
        /\ Len(ContentChunksBeforeTerm(out[r])) = 1
        /\ rcvd[r][3].tok.kind = "Token"

\* ---------------------------------------------------------------- C14
InFlight == {incoming[i] : i \in 1..Len(incoming)} \cup held

MessagesOf(req) ==
    IF req.messages.tag = "None" THEN <<>>
    ELSE IF req.messages.tag = "Item" THEN <<req.messages.item>>
    ELSE req.messages.array

\* c without its leading and trailing whitespace
TrimmedOf(c) ==
    LET N == {i \in 1..Len(c) : c[i] \notin Whitespace}
    IN IF N = {} THEN <<>>
       ELSE SubSeq(c, CHOOSE i \in N : \A j \in N : i <= j,
                      CHOOSE i \in N : \A j \in N : j <= i)

DisplayName(role) ==
    IF role = "System" THEN <<"S", "y", "s", "t", "e", "m">>
    ELSE IF role = "User" THEN <<"U", "s", "e", "r">>
    ELSE <<"A", "s", "s", "i", "s", "t", "a", "n", "t">>

BlankLine == <<"\n", "\n">>

RECURSIVE ExpectedPrompt(_, _)
ExpectedPrompt(msgs, i) ==
    IF i > Len(msgs)
      THEN BlankLine \o <<"A", "s", "s", "i", "s", "t", "a", "n", "t", ":">>
      ELSE (IF i > 1 THEN BlankLine ELSE <<>>)
             \o DisplayName(msgs[i].role) \o <<":", " ">> \o TrimmedOf(msgs[i].content)
             \o ExpectedPrompt(msgs, i + 1)

\* C15: the prompt of the GenerateRequest made of a request with N messages
\* (none, a single record, or an array) is the N segments
\* "<DisplayRole>: <trimmed content>" in message order, joined by a blank
\* line, then a blank line and "Assistant:".
C15_PromptSegments ==
    \A r \in Req : generate[r] # NoRequest =>
        generate[r].prompt = ExpectedPrompt(MessagesOf(body[r]), 1)

C15_Witness ==
    \E r \in Req :
        /\ generate[r] # NoRequest
        /\ body[r].messages.tag = "Array"
        /\ Len(body[r].messages.array) = 2
        /\ body[r].messages.array[1].role = "System"
        /\ body[r].messages.array[2].content = <<" ", "x", " ", "y", " ">>
        /\ body[r].messages.array[2].content \in Contents

\* ---------------------------------------------------------------- C16
\* C16: the max_tokens of the GenerateRequest is the smaller of the
\* requested value and MAX_TOKENS.
C16_MaxTokensClamped ==
    \A r \in Req : generate[r] # NoRequest =>
        LET q == body[r].max_tokens
            g == generate[r].max_tokens
        IN /\ g <= MAX_TOKENS
           /\ q <= MAX_TOKENS => g = q
           /\ q > MAX_TOKENS => g = MAX_TOKENS

C16_Witness ==
    \E r \in Req :
        /\ generate[r] # NoRequest
        /\ body[r].max_tokens = 999999
        /\ generate[r].max_tokens = 4096

====
